---- MODULE Spec2Model ----
(***************************************************************************)
(* Model of kik_unofficial/client.py: the stanza framer of KikConnection,  *)
(* the top-level dispatch of KikClient and the connection life cycle       *)
(* (worker threads, the asyncio loop, transports, caller threads).         *)
(*                                                                         *)
(* The specifications share the variables:                                 *)
(*   SpecFramer    KikConnection.data_received fed with chunk sequences    *)
(*   SpecDispatch  KikClient._on_new_data_received on decoded stanzas      *)
(*   Spec          the life cycle of one client: connects, reconnects      *)
(*   SpecCaller    one connection and a caller thread that sends and       *)
(*                 disconnects (FairSpecCaller: the caller is scheduled)   *)
(***************************************************************************)
EXTENDS Integers, Sequences, FiniteSets, TLC

None == "None"

(***************************************************************************)
(* Bytes.  A byte string is kept run-length encoded: a sequence of runs    *)
(* <<byte, count>>, count >= 1, no two adjacent runs of the same byte, so  *)
(* that equal byte strings are equal values.  A byte is a one-character    *)
(* string.                                                                 *)
(***************************************************************************)
LT == "<"
GT == ">"
SP == " "
SL == "/"
FILL == "x"

\* client.py:647  len(data) < 16384
PARTIAL_THRESHOLD == 16384

\* how many bytes a large stanza extends beyond the threshold
MaxTail == 8

\* n times the byte b
Run(b, n) == IF n = 0 THEN <<>> ELSE <<<<b, n>>>>

\* a + b
BCat(a, b) ==
    IF a = <<>> THEN b
    ELSE IF b = <<>> THEN a
    ELSE IF a[Len(a)][1] = b[1][1]
         THEN SubSeq(a, 1, Len(a) - 1)
                  \o <<<<b[1][1], a[Len(a)][2] + b[1][2]>>>> \o Tail(b)
         ELSE a \o b

\* the byte string of a sequence of bytes
RECURSIVE Bytes(_)
Bytes(cs) == IF cs = <<>> THEN <<>> ELSE BCat(Run(Head(cs), 1), Bytes(Tail(cs)))

\* len(s)
RECURSIVE BLen(_)
BLen(s) == IF s = <<>> THEN 0 ELSE s[1][2] + BLen(Tail(s))

\* s[:n]
RECURSIVE BTake(_, _)
BTake(s, n) ==
    IF n = 0 \/ s = <<>> THEN <<>>
    ELSE IF s[1][2] <= n THEN <<s[1]>> \o BTake(Tail(s), n - s[1][2])
    ELSE <<<<s[1][1], n>>>>

\* s[n:]
RECURSIVE BDrop(_, _)
BDrop(s, n) ==
    IF n = 0 \/ s = <<>> THEN s
    ELSE IF s[1][2] <= n THEN BDrop(Tail(s), n - s[1][2])
    ELSE <<<<s[1][1], s[1][2] - n>>>> \o Tail(s)

\* bytes.endswith
EndsWith(data, suffix) ==
    /\ BLen(suffix) <= BLen(data)
    /\ BDrop(data, BLen(data) - BLen(suffix)) = suffix

\* bytes.lstrip(b'<'): all leading '<' bytes are one run
LStripLT(data) ==
    IF data # <<>> /\ data[1][1] = LT THEN Tail(data) ELSE data

\* bytes.split(sep)[0]: the bytes before the first occurrence of sep
SplitFirst(data, sep) ==
    IF \A i \in 1..Len(data) : data[i][1] # sep
    THEN data
    ELSE SubSeq(data, 1,
                (CHOOSE i \in 1..Len(data) :
                     /\ data[i][1] = sep
                     /\ \A j \in 1..(i - 1) : data[j][1] # sep) - 1)

\* KikConnection.parse_start_tag: <<tag, is_closing>>
parse_start_tag(data) ==
    LET tag == SplitFirst(SplitFirst(LStripLT(data), GT), SP)
        is_closing == EndsWith(tag, Bytes(<<SL>>))
    IN  <<IF is_closing THEN BTake(tag, BLen(tag) - 1) ELSE tag, is_closing>>

\* KikConnection.ends_with_tag
ends_with_tag(expected_end_tag, data) ==
    EndsWith(data, BCat(BCat(Bytes(<<LT, SL>>), expected_end_tag), Bytes(<<GT>>)))

(***************************************************************************)
(* Framer state: one KikConnection instance fed by its transport.          *)
(***************************************************************************)
VARIABLES
    chunks,                  \* chunks the transport has still to deliver
    orig,                    \* concatenation of all chunks of this run
    nfed,                    \* chunks delivered so far
    fed,                     \* the chunks delivered so far, in order
    partial_data,            \* KikConnection.partial_data
    partial_data_start_tag,  \* KikConnection.partial_data_start_tag
    scheduled,               \* arguments of the scheduled _on_new_data_received calls
    ninst,                   \* how many KikConnection instances there have been
    prev_partial             \* the instance before this one held a partial buffer
                             \* when this one replaced it

framerVars == <<chunks, orig, nfed, fed, partial_data, partial_data_start_tag, scheduled,
                ninst, prev_partial>>

(***************************************************************************)
(* Client state.  Worker thread w (the w-th call of _connect) creates the  *)
(* KikConnection instance w and the connect task w, whose transport is     *)
(* transport w.                                                            *)
(***************************************************************************)
VARIABLES
    username,                    \* KikClient.username
    password,                    \* KikClient.password
    kik_node,                    \* KikClient.kik_node
    init_node,                   \* the kik_node argument of __init__
    connected,                   \* KikClient.connected
    authenticated,               \* KikClient.authenticated
    should_login_on_connection,  \* KikClient.should_login_on_connection
    connection,                  \* KikClient.connection: an instance, 0 for None
    inst_transport,              \* KikConnection.transport per instance, 0 for None
    registry,                    \* KikClient.xml_namespace_handlers has been assigned
    pc,                          \* position of each worker thread
    nstarted,                    \* worker threads started so far
    ready,                       \* the loop's queue of callbacks
    running,                     \* loop.is_running()
    stopping,                    \* loop.stop() was called in this run
    ntodo,                       \* callbacks left in the current iteration
    runner,                      \* the worker thread running the loop, 0 for none
    loop_blocked,                \* the loop thread is stuck in a poll that cannot end
    tstate,                      \* connect task / transport state
    tproto,                      \* the instance a transport delivers to
    cpc,                         \* position of the caller thread
    ncalls,                      \* public calls made by the caller thread
    api,                         \* the last public call: its method and peer_jid
    cur,                         \* the element of the _send_xmpp_element call that
                                 \* the caller thread is in, NoElement when in none
    nsent,                       \* payloads of cur marshaled so far
    returned,                    \* per _send_xmpp_element call of the caller thread
                                 \* that returned, in order: the element, the result
    nrecv,                       \* chunks the peer has sent
    peer,                        \* per transport: the writes on it that the scripted
                                 \* peer has reacted to
    wire,                        \* every transport.write, in order
    invoked,                     \* handlers and callbacks invoked, in order
    raised,                      \* exceptions raised, in order
    last,                        \* <<the last dispatch>>: its data, the fields before it
                                 \* and its result; <<>> before the first dispatch
    nlogin,                      \* calls of KikClient.login made by the core
    nacks,                       \* success acknowledgements without ts dispatched
    nkeepalive,                  \* keep-alive chunks dispatched
    est,                         \* per call of _establish_authenticated_session, in
                                 \* order: the transport disconnect() wrote the
                                 \* close tag on, 0 when it wrote nothing
    hs_full                      \* per transport: whether node, username and password
                                 \* were all set when it was established

clientVars == <<username, password, kik_node, init_node, connected, authenticated,
                should_login_on_connection, connection, inst_transport, registry>>
callerVars == <<cpc, ncalls, api, cur, nsent, returned>>
threadVars == <<pc, nstarted, callerVars>>
loopVars   == <<ready, running, stopping, ntodo, runner, loop_blocked>>
netVars    == <<tstate, tproto, nrecv, peer>>
obsVars    == <<wire, invoked, raised, last, nlogin, nacks, nkeepalive, est, hs_full>>

mainVars == <<clientVars, threadVars, loopVars, netVars, obsVars>>

vars == <<framerVars, mainVars>>

(***************************************************************************)
(* Bounds of the life-cycle model.                                         *)
(***************************************************************************)
\* calls of _connect: the one of __init__ and the reconnects
MaxWorkers == 3
\* chunks the peer sends
MaxRecv == 3
\* public calls (disconnect, send) of the caller thread
MaxCalls == 2
\* chunks the peer sends where a caller thread is modelled
MaxCallerRecv == 2
\* payloads in the list that serialize() returns
MaxPackets == 2

Workers == 1..MaxWorkers

(***************************************************************************)
(* Decoded stanzas.  q is the nested query node of an iq: "nochild" when   *)
(* there is none, "nokey" when it has no namespace attribute, else the     *)
(* namespace.  node: the stanza is a login response carrying the node.     *)
(* xmlns, type: attributes of a message, None when absent.  g: the message *)
(* has a g child.                                                          *)
(***************************************************************************)
Stanza(name) ==
    [name |-> name, ok |-> None, ts |-> FALSE, q |-> None, node |-> FALSE,
     xmlns |-> None, type |-> None, g |-> FALSE]

\* the chunk b' ', which is no stanza, and the payload b' '
KEEPALIVE == Stanza(" ")
SPACE == " "

KStanza(ok, ts) == [Stanza("k") EXCEPT !.ok = ok, !.ts = ts]
IqStanza(q, node) == [Stanza("iq") EXCEPT !.q = q, !.node = node]
MessageStanza(xmlns, type, g) ==
    [Stanza("message") EXCEPT !.xmlns = xmlns, !.type = type, !.g = g]

\* KikClient.__init__: the keys of xml_namespace_handlers
xml_namespace_handlers ==
    {"kik:iq:check-unique", "jabber:iq:register", "jabber:iq:roster", "jabber:client",
     "kik:groups", "kik:iq:friend", "kik:iq:friend:batch", "kik:iq:xiphias:bridge"}

Handler(ns) == [kind |-> "handler", name |-> ns]
Callback(name) == [kind |-> "callback", name |-> name]

(***************************************************************************)
(* Dispatch, as a function of the stanza and of the client fields c it     *)
(* reads.  The result gives the fields it writes and, in order, the        *)
(* callbacks it schedules on the loop (sends), the handlers and callbacks  *)
(* it invokes and the exception that ends it, if any.                      *)
(***************************************************************************)
Fields ==
    [connected |-> connected, authenticated |-> authenticated,
     should_login_on_connection |-> should_login_on_connection,
     connection |-> connection, registry |-> registry]

NoEffect(c) ==
    [connected |-> c.connected, authenticated |-> c.authenticated,
     should_login_on_connection |-> c.should_login_on_connection,
     sends |-> <<>>, invoked |-> <<>>, raised |-> <<>>,
     establish |-> FALSE, blocked |-> FALSE, logins |-> 0]

\* a callback queued on the loop: the method, the connection instance or
\* transport it is bound to, and its argument, a received stanza (data) or
\* a payload to write
NoStanza == Stanza(None)
Callbk(op, conn, data) == [op |-> op, conn |-> conn, data |-> data, payload |-> None]
SendRawData(conn, payload) ==
    [op |-> "send_raw_data", conn |-> conn, data |-> NoStanza, payload |-> payload]

\* an XMPPElement: message_id and what serialize() returns, a list of
\* payloads (is_list) or the one payload
NoElement == [message_id |-> None, payloads |-> <<>>, is_list |-> FALSE]

\* the i-th payload of the element of the k-th public call
Payload(k, i) == "e" \o ToString(k) \o "." \o ToString(i)

Element(k, n, is_list) ==
    [message_id |-> "id" \o ToString(k), payloads |-> [i \in 1..n |-> Payload(k, i)],
     is_list |-> is_list]

\* a public call: the method and its peer_jid argument, a string kept as
\* the sequence of its parts
NoCall == [method |-> None, jid |-> <<>>]

\* part in jid, for a part that is one of the domains
Contains(jid, part) == \E i \in 1..Len(jid) : jid[i] = part

\* KikClient._send_xmpp_element called on the loop thread, r being the
\* effects of the handler so far: with connected False the poll never ends
\* (nothing else runs on the loop thread), else the payload is scheduled
send_on_loop_thread(r, c, payload) ==
    IF ~r.connected
    THEN [r EXCEPT !.blocked = TRUE]
    ELSE [r EXCEPT !.sends = Append(@, SendRawData(c.connection, payload))]

\* KikClient.login as called by the core
login(r, c) == send_on_loop_thread([r EXCEPT !.logins = @ + 1], c, "login")

\* a _handle_received_k_element that calls login() before it sets connected
_handle_received_k_element_login_first(k_element, c) ==
    IF k_element.ok = None
    THEN [NoEffect(c) EXCEPT !.raised = <<"KeyError">>]
    ELSE IF k_element.ok = "1"
    THEN IF k_element.ts
         THEN [NoEffect(c) EXCEPT !.connected = TRUE, !.authenticated = TRUE,
                                  !.invoked = <<Callback("on_authenticated")>>]
         ELSE IF c.should_login_on_connection
         THEN LET r2 == login(NoEffect(c), c)
              IN  IF r2.blocked THEN r2
                  ELSE [r2 EXCEPT !.connected = TRUE,
                                  !.should_login_on_connection = FALSE]
         ELSE [NoEffect(c) EXCEPT !.connected = TRUE]
    ELSE [NoEffect(c) EXCEPT !.invoked = <<Callback("on_connection_failed")>>]

\* a _handle_received_k_element that looks at ts before it looks at ok
_handle_received_k_element_ts_first(k_element, c) ==
    IF k_element.ok = None
    THEN [NoEffect(c) EXCEPT !.raised = <<"KeyError">>]
    ELSE IF k_element.ts
    THEN [NoEffect(c) EXCEPT !.connected = TRUE, !.authenticated = TRUE,
                             !.invoked = <<Callback("on_authenticated")>>]
    ELSE IF k_element.ok = "1"
    THEN LET r1 == [NoEffect(c) EXCEPT !.connected = TRUE]
         IN  IF c.should_login_on_connection
             THEN LET r2 == login(r1, c)
                  IN  IF r2.blocked THEN r2
                      ELSE [r2 EXCEPT !.should_login_on_connection = FALSE]
             ELSE r1
    ELSE [NoEffect(c) EXCEPT !.invoked = <<Callback("on_connection_failed")>>]

\* a _handle_received_k_element that logs in whether or not ts is there
_handle_received_k_element_login_always(k_element, c) ==
    IF k_element.ok = None
    THEN [NoEffect(c) EXCEPT !.raised = <<"KeyError">>]
    ELSE IF k_element.ok = "1"
    THEN LET r1 == [NoEffect(c) EXCEPT !.connected = TRUE]
             r2 == IF k_element.ts
                   THEN [r1 EXCEPT !.authenticated = TRUE,
                                   !.invoked = <<Callback("on_authenticated")>>]
                   ELSE r1
         IN  IF c.should_login_on_connection
             THEN LET r3 == login(r2, c)
                  IN  IF r3.blocked THEN r3
                      ELSE [r3 EXCEPT !.should_login_on_connection = FALSE]
             ELSE r2
    ELSE [NoEffect(c) EXCEPT !.invoked = <<Callback("on_connection_failed")>>]

\* KikClient._handle_received_k_element
_handle_received_k_element(k_element, c) ==
    IF k_element.ok = None
    THEN [NoEffect(c) EXCEPT !.raised = <<"KeyError">>]
    ELSE IF k_element.ok = "1"
    THEN LET r1 == [NoEffect(c) EXCEPT !.connected = TRUE]
         IN  IF k_element.ts
             THEN [r1 EXCEPT !.authenticated = TRUE,
                             !.invoked = <<Callback("on_authenticated")>>]
             ELSE IF c.should_login_on_connection
             THEN LET r2 == login(r1, c)
                  IN  IF r2.blocked THEN r2
                      ELSE [r2 EXCEPT !.should_login_on_connection = FALSE]
             ELSE r1
    ELSE [NoEffect(c) EXCEPT !.invoked = <<Callback("on_connection_failed")>>]

\* xmlns_handlers.RegisterHandler.handle: a login response that carries the
\* node makes the handler call _establish_authenticated_session
HandlerEstablishes(xmlns, message) ==
    xmlns = "jabber:iq:register" /\ message.node

\* a _handle_xmlns that looks the namespace up without the membership test
_handle_xmlns_unchecked(xmlns, message, c) ==
    IF ~c.registry
    THEN [NoEffect(c) EXCEPT !.raised = <<"AttributeError">>]
    ELSE IF xmlns \notin xml_namespace_handlers
    THEN [NoEffect(c) EXCEPT !.raised = <<"KeyError">>]
    ELSE [NoEffect(c) EXCEPT !.invoked = <<Handler(xmlns)>>,
                             !.establish = HandlerEstablishes(xmlns, message)]

\* KikClient._handle_xmlns; the attribute xml_namespace_handlers does not
\* exist before line 65 has run, and reading it raises AttributeError
_handle_xmlns(xmlns, message, c) ==
    IF ~c.registry
    THEN [NoEffect(c) EXCEPT !.raised = <<"AttributeError">>]
    ELSE IF xmlns \notin xml_namespace_handlers
    THEN NoEffect(c)
    ELSE [NoEffect(c) EXCEPT !.invoked = <<Handler(xmlns)>>,
                             !.establish = HandlerEstablishes(xmlns, message)]

\* KikClient._handle_received_iq_element
_handle_received_iq_element(iq_element, c) ==
    IF iq_element.q = "nochild"
    THEN [NoEffect(c) EXCEPT !.raised = <<"TypeError">>]
    ELSE IF iq_element.q = "nokey"
    THEN [NoEffect(c) EXCEPT !.raised = <<"KeyError">>]
    ELSE _handle_xmlns(iq_element.q, iq_element, c)

\* self.xml_namespace_handlers['jabber:client'].handle(...), lines 557, 560
default_handler(c) ==
    IF ~c.registry
    THEN [NoEffect(c) EXCEPT !.raised = <<"AttributeError">>]
    ELSE [NoEffect(c) EXCEPT !.invoked = <<Handler("jabber:client")>>]

\* a _handle_xmpp_message that tests the receipt type before the namespace
_handle_xmpp_message_receipt_first(xmpp_message, c) ==
    IF xmpp_message.type = "receipt"
    THEN IF xmpp_message.g
         THEN [NoEffect(c) EXCEPT !.invoked = <<Callback("on_group_receipts_received")>>]
         ELSE default_handler(c)
    ELSE IF xmpp_message.xmlns # None
    THEN _handle_xmlns(xmpp_message.xmlns, xmpp_message, c)
    ELSE IF xmpp_message.type = None
    THEN [NoEffect(c) EXCEPT !.raised = <<"KeyError">>]
    ELSE default_handler(c)

\* KikClient._handle_xmpp_message
_handle_xmpp_message(xmpp_message, c) ==
    IF xmpp_message.xmlns # None
    THEN _handle_xmlns(xmpp_message.xmlns, xmpp_message, c)
    ELSE IF xmpp_message.type = None
    THEN [NoEffect(c) EXCEPT !.raised = <<"KeyError">>]
    ELSE IF xmpp_message.type = "receipt"
    THEN IF xmpp_message.g
         THEN [NoEffect(c) EXCEPT !.invoked = <<Callback("on_group_receipts_received")>>]
         ELSE default_handler(c)
    ELSE default_handler(c)

\* KikClient._on_new_data_received
_on_new_data_received(data, c) ==
    IF data = KEEPALIVE
    THEN [NoEffect(c) EXCEPT !.sends = <<SendRawData(c.connection, SPACE)>>]
    ELSE IF data.name = "k" THEN _handle_received_k_element(data, c)
    ELSE IF data.name = "iq" THEN _handle_received_iq_element(data, c)
    ELSE IF data.name = "message" THEN _handle_xmpp_message(data, c)
    ELSE IF data.name = "stc"
    THEN [NoEffect(c) EXCEPT !.invoked = <<Callback("on_captcha_received")>>]
    ELSE NoEffect(c)

(***************************************************************************)
(* Transports.  wire records every call of transport.write: the transport, *)
(* the payload and the thread that made the call ("loop" for the thread    *)
(* that runs the loop, "caller" for the caller thread).  A write on a      *)
(* transport that the peer has closed is dropped by the transport without  *)
(* an exception.                                                           *)
(***************************************************************************)
Written(t, data, by) == [t |-> t, data |-> data, by |-> by]

\* a KikConnection.close that writes no closing tag
close_without_tag(conn, by) == <<>>

\* KikConnection.close, called by thread `by`: the writes it makes
close(conn, by) ==
    IF inst_transport[conn] # 0
    THEN <<Written(inst_transport[conn], "</k>", by)>>
    ELSE <<>>

\* KikClient._on_connection_made: the handshake payload
initial_connection_payload ==
    IF username # None /\ password # None /\ kik_node # None
    THEN "auth"
    ELSE "anon"

(***************************************************************************)
(* The asyncio loop.  One iteration polls for I/O, which appends the       *)
(* handlers of the events that are due to the queue, and then runs the     *)
(* callbacks that are in the queue at that moment.  stop() lets the        *)
(* iteration finish and the loop then returns; callbacks scheduled in the  *)
(* meantime stay queued for the next run of the loop.                      *)
(***************************************************************************)
AtPoll == running /\ ntodo = 0 /\ ~stopping /\ ~loop_blocked

CanRun(op) ==
    /\ running
    /\ ~loop_blocked
    /\ ready # <<>>
    /\ ntodo > 0 \/ ~stopping
    /\ Head(ready).op = op

\* the queue and the iteration counter after the head callback has run and
\* scheduled the callbacks `more`
Ran(more) ==
    /\ ready' = Tail(ready) \o more
    /\ ntodo' = (IF ntodo = 0 THEN Len(ready) ELSE ntodo) - 1

\* KikClient.__init__ up to the start of the first worker thread (line
\* 63), the credentials being given
Started ==
    /\ init_node = kik_node
    /\ connected = FALSE
    /\ authenticated = FALSE
    /\ should_login_on_connection = (username # None /\ password # None)
    /\ connection = 0
    /\ inst_transport = [i \in Workers |-> 0]
    /\ pc = [w \in Workers |-> IF w = 1 THEN "start" ELSE "idle"]
    /\ nstarted = 1
    /\ ready = <<>>
    /\ running = FALSE
    /\ stopping = FALSE
    /\ ntodo = 0
    /\ runner = 0
    /\ loop_blocked = FALSE
    /\ tstate = [t \in Workers |-> "none"]
    /\ tproto = [t \in Workers |-> 0]
    /\ cpc = "idle"
    /\ ncalls = 0
    /\ api = NoCall
    /\ cur = NoElement
    /\ nsent = 0
    /\ returned = <<>>
    /\ nrecv = 0
    /\ peer = [t \in Workers |-> 0]
    /\ wire = <<>>
    /\ invoked = <<>>
    /\ raised = <<>>
    /\ last = <<>>
    /\ nlogin = 0
    /\ nacks = 0
    /\ nkeepalive = 0
    /\ est = <<>>
    /\ hs_full = [t \in Workers |-> None]

\* KikClient.__init__ has returned and the first worker thread has not
\* yet run
Constructed ==
    /\ Started
    /\ registry = TRUE

\* the client variables when only the framer is exercised
MainIdle ==
    /\ username = None
    /\ password = None
    /\ kik_node = None
    /\ init_node = None
    /\ connected = FALSE
    /\ authenticated = FALSE
    /\ should_login_on_connection = FALSE
    /\ connection = 0
    /\ inst_transport = [i \in Workers |-> 0]
    /\ registry = TRUE
    /\ pc = [w \in Workers |-> "idle"]
    /\ nstarted = 0
    /\ ready = <<>>
    /\ running = FALSE
    /\ stopping = FALSE
    /\ ntodo = 0
    /\ runner = 0
    /\ loop_blocked = FALSE
    /\ tstate = [t \in Workers |-> "none"]
    /\ tproto = [t \in Workers |-> 0]
    /\ cpc = "idle"
    /\ ncalls = 0
    /\ api = NoCall
    /\ cur = NoElement
    /\ nsent = 0
    /\ returned = <<>>
    /\ nrecv = 0
    /\ peer = [t \in Workers |-> 0]
    /\ wire = <<>>
    /\ invoked = <<>>
    /\ raised = <<>>
    /\ last = <<>>
    /\ nlogin = 0
    /\ nacks = 0
    /\ nkeepalive = 0
    /\ est = <<>>
    /\ hs_full = [t \in Workers |-> None]

\* the framer variables when the framer is not exercised
FramerIdle ==
    /\ chunks = <<>>
    /\ orig = <<>>
    /\ nfed = 0
    /\ fed = <<>>
    /\ partial_data = None
    /\ partial_data_start_tag = None
    /\ scheduled = <<>>
    /\ ninst = 1
    /\ prev_partial = FALSE

(***************************************************************************)
(* KikClient._kik_connection_thread_function, worker thread w.             *)
(***************************************************************************)
\* lines 583-584: the check of a running loop and the marshaled close
ThreadStart(w) ==
    /\ pc[w] = "start"
    /\ IF running
       THEN IF connection = 0
            THEN /\ pc' = [pc EXCEPT ![w] = "crashed"]
                 /\ raised' = Append(raised, "AttributeError")
                 /\ UNCHANGED ready
            ELSE /\ pc' = [pc EXCEPT ![w] = "wait"]
                 /\ ready' = Append(ready, Callbk("close", connection, NoStanza))
                 /\ UNCHANGED raised
       ELSE /\ pc' = [pc EXCEPT ![w] = "create"]
            /\ UNCHANGED <<ready, raised>>
    /\ UNCHANGED <<framerVars, clientVars, nstarted, callerVars, running, stopping, ntodo,
                   runner, loop_blocked, netVars, wire, invoked, last, nlogin, nacks,
                   nkeepalive, est, hs_full>>

\* lines 586-588: the poll ends when the loop is seen not to run
ThreadWaitEnds(w) ==
    /\ pc[w] = "wait"
    /\ ~running
    /\ pc' = [pc EXCEPT ![w] = "create"]
    /\ UNCHANGED <<framerVars, clientVars, nstarted, callerVars, loopVars, netVars, obsVars>>

\* lines 593-595: the new instance, and run_until_complete, which raises
\* RuntimeError when the loop is running
ThreadCreate(w) ==
    /\ pc[w] = "create"
    /\ connection' = w
    /\ IF running
       THEN /\ pc' = [pc EXCEPT ![w] = "crashed"]
            /\ raised' = Append(raised, "RuntimeError")
            /\ UNCHANGED <<running, runner, tstate>>
       ELSE /\ pc' = [pc EXCEPT ![w] = "ruc"]
            /\ running' = TRUE
            /\ runner' = w
            /\ tstate' = [tstate EXCEPT ![w] = "pending"]
            /\ UNCHANGED raised
    /\ UNCHANGED <<framerVars, username, password, kik_node, init_node, connected,
                   authenticated, should_login_on_connection, inst_transport, registry,
                   nstarted, callerVars, ready, stopping, ntodo, loop_blocked, tproto, nrecv,
                   peer,
                   wire, invoked, last, nlogin, nacks, nkeepalive, est, hs_full>>

\* line 597: run_forever, which raises RuntimeError when the loop is running
ThreadRunForever(w) ==
    /\ pc[w] = "gap"
    /\ IF running
       THEN /\ pc' = [pc EXCEPT ![w] = "crashed"]
            /\ raised' = Append(raised, "RuntimeError")
            /\ UNCHANGED <<running, runner>>
       ELSE /\ pc' = [pc EXCEPT ![w] = "forever"]
            /\ running' = TRUE
            /\ runner' = w
            /\ UNCHANGED raised
    /\ UNCHANGED <<framerVars, clientVars, nstarted, callerVars, ready, stopping, ntodo,
                   loop_blocked, netVars, wire, invoked, last, nlogin, nacks,
                   nkeepalive, est, hs_full>>

\* line 599: callback.on_disconnected()
ThreadNotify(w) ==
    /\ pc[w] = "notify"
    /\ pc' = [pc EXCEPT ![w] = "done"]
    /\ invoked' = Append(invoked, Callback("on_disconnected"))
    /\ UNCHANGED <<framerVars, clientVars, nstarted, callerVars, loopVars, netVars,
                   wire, raised, last, nlogin, nacks, nkeepalive, est, hs_full>>

\* the loop returns to the thread that runs it: run_until_complete raises
\* RuntimeError when its future is not done, or the exception of the
\* future when the transport was aborted; run_forever just returns
LoopReturns ==
    /\ running
    /\ stopping
    /\ ntodo = 0
    /\ ~loop_blocked
    /\ running' = FALSE
    /\ stopping' = FALSE
    /\ runner' = 0
    /\ IF pc[runner] = "forever"
       THEN /\ pc' = [pc EXCEPT ![runner] = "notify"]
            /\ UNCHANGED raised
       ELSE IF tstate[runner] \in {"pending", "arriving", "aborted"}
            THEN /\ pc' = [pc EXCEPT ![runner] = "crashed"]
                 /\ raised' = Append(raised, "RuntimeError")
            ELSE /\ pc' = [pc EXCEPT ![runner] = "gap"]
                 /\ UNCHANGED raised
    /\ UNCHANGED <<framerVars, clientVars, nstarted, callerVars, ready, ntodo,
                   loop_blocked, netVars, wire, invoked, last, nlogin, nacks,
                   nkeepalive, est, hs_full>>

(***************************************************************************)
(* The network, seen by the loop when it polls.                            *)
(***************************************************************************)
\* what the peer sends in the life-cycle model, each in one small chunk
PeerChunks ==
    {KEEPALIVE, KStanza("1", TRUE), KStanza("1", FALSE), KStanza("0", FALSE),
     IqStanza("jabber:iq:register", TRUE)}

\* what the peer sends where a caller thread is modelled and no reconnect
CallerPeerChunks == {KEEPALIVE, KStanza("1", TRUE), KStanza("1", FALSE)}

\* login responses on their way to the dispatch
RECURSIVE PendingResponses(_)
PendingResponses(q) ==
    IF q = <<>> THEN 0
    ELSE (IF Head(q).data.node
          THEN 1 ELSE 0) + PendingResponses(Tail(q))

\* the TCP connection of task t is made: create_connection calls the
\* protocol factory, lambda: self.connection (line 594), and starts the TLS
\* handshake (ssl=True); connection_made is called when that is over
NetConnect(t) ==
    /\ AtPoll
    /\ tstate[t] = "pending"
    /\ tstate' = [tstate EXCEPT ![t] = "arriving"]
    /\ tproto' = [tproto EXCEPT ![t] = connection]
    /\ ready' = Append(ready, Callbk("connection_made", t, NoStanza))
    /\ UNCHANGED <<framerVars, clientVars, threadVars, running, stopping, ntodo, runner,
                   loop_blocked, nrecv, peer, obsVars>>

\* a chunk arrives on transport t
PeerData(t, d) ==
    /\ AtPoll
    /\ tstate[t] = "live"
    /\ nrecv < MaxRecv
    /\ d.node => nstarted + PendingResponses(ready) <= MaxWorkers
    /\ nrecv' = nrecv + 1
    /\ ready' = Append(ready, Callbk("read_ready", t, d))
    /\ UNCHANGED <<framerVars, clientVars, threadVars, running, stopping, ntodo, runner,
                   loop_blocked, tstate, tproto, peer, obsVars>>

\* the peer closes transport t
PeerClose(t) ==
    /\ AtPoll
    /\ tstate[t] = "live"
    /\ tstate' = [tstate EXCEPT ![t] = "eof"]
    /\ ready' = Append(ready, Callbk("read_eof", t, NoStanza))
    /\ UNCHANGED <<framerVars, clientVars, threadVars, running, stopping, ntodo, runner,
                   loop_blocked, tproto, nrecv, peer, obsVars>>

(***************************************************************************)
(* Callbacks run by the loop thread.                                       *)
(***************************************************************************)
\* KikConnection.connection_made on the protocol instance of the transport
\* and KikClient._on_connection_made, which sends through self.connection;
\* when that is an instance without transport, send_raw_data raises
\* AttributeError and asyncio aborts the transport, else the future of
\* run_until_complete completes
RunConnectionMade ==
    /\ CanRun("connection_made")
    /\ LET t == Head(ready).conn
           inst == tproto[t]
           transports == [inst_transport EXCEPT ![inst] = t]
       IN  /\ inst_transport' = transports
           /\ hs_full' = [hs_full EXCEPT ![t] =
                              IF username # None /\ password # None /\ kik_node # None
                              THEN "full" ELSE "partial"]
           /\ IF transports[connection] # 0
              THEN /\ wire' = Append(wire, Written(transports[connection],
                                                   initial_connection_payload, "loop"))
                   /\ tstate' = [tstate EXCEPT ![t] = "live"]
                   /\ Ran(<<Callbk("future_done", t, NoStanza)>>)
                   /\ UNCHANGED raised
              ELSE /\ raised' = Append(raised, "AttributeError")
                   /\ tstate' = [tstate EXCEPT ![t] = "aborted"]
                   /\ Ran(<<Callbk("connection_lost", t, NoStanza)>>)
                   /\ UNCHANGED wire
    /\ UNCHANGED <<framerVars, username, password, kik_node, init_node, connected,
                   authenticated, should_login_on_connection, connection, registry,
                   threadVars, running, stopping, runner, loop_blocked, tproto, nrecv, peer,
                   invoked, last,
                   nlogin, nacks, nkeepalive, est>>

\* the done callback of run_until_complete: loop.stop(), as long as the
\* thread that waits for the future is still in run_until_complete
RunFutureDone ==
    /\ CanRun("future_done")
    /\ LET t == Head(ready).conn
       IN  stopping' = IF runner = t /\ pc[t] = "ruc" THEN TRUE ELSE stopping
    /\ Ran(<<>>)
    /\ UNCHANGED <<framerVars, clientVars, threadVars, running, runner, loop_blocked,
                   netVars, obsVars>>

\* KikConnection.data_received, lines 646-648: a chunk below the threshold
\* with no partial buffer
RunReadReady ==
    /\ CanRun("read_ready")
    /\ Ran(<<Callbk("_on_new_data_received", 0, Head(ready).data)>>)
    /\ UNCHANGED <<framerVars, clientVars, threadVars, running, stopping, runner,
                   loop_blocked, netVars, obsVars>>

\* KikClient._on_new_data_received; with a login response that carries the
\* node the handler goes on with KikClient._establish_authenticated_session:
\* the node is stored, disconnect() closes self.connection on the loop
\* thread and _connect() starts the next worker thread (the model starts
\* at most MaxWorkers threads: the last reconnect stops after disconnect())
RunOnNewData ==
    /\ CanRun("_on_new_data_received")
    /\ LET data == Head(ready).data
           r == _on_new_data_received(data, Fields)
       IN  /\ connected' = r.connected
           /\ authenticated' = r.authenticated
           /\ should_login_on_connection' = r.should_login_on_connection
           /\ loop_blocked' = r.blocked
           /\ invoked' = invoked \o r.invoked
           /\ Ran(r.sends)
           /\ last' = <<[data |-> data, before |-> Fields, result |-> r]>>
           /\ nlogin' = nlogin + r.logins
           /\ nacks' = nacks + (IF data.name = "k" /\ data.ok = "1" /\ ~data.ts THEN 1 ELSE 0)
           /\ nkeepalive' = nkeepalive + (IF data = KEEPALIVE THEN 1 ELSE 0)
           /\ IF r.establish
              THEN /\ kik_node' = "n"
                   /\ IF connection = 0
                      THEN /\ raised' = raised \o r.raised \o <<"AttributeError">>
                           /\ UNCHANGED <<wire, pc, nstarted, est>>
                      ELSE /\ raised' = raised \o r.raised
                           /\ wire' = wire \o close(connection, "loop")
                           /\ est' = Append(est, inst_transport[connection])
                           /\ IF nstarted < MaxWorkers
                              THEN /\ pc' = [pc EXCEPT ![nstarted + 1] = "start"]
                                   /\ nstarted' = nstarted + 1
                              ELSE UNCHANGED <<pc, nstarted>>
              ELSE /\ raised' = raised \o r.raised
                   /\ UNCHANGED <<kik_node, wire, pc, nstarted, est>>
    /\ UNCHANGED <<framerVars, username, password, init_node, connection, inst_transport,
                   registry, callerVars, running, stopping, runner, netVars, hs_full>>

\* KikConnection.send_raw_data
RunSendRawData ==
    /\ CanRun("send_raw_data")
    /\ LET conn == Head(ready).conn
       IN  IF inst_transport[conn] = 0
           THEN /\ raised' = Append(raised, "AttributeError")
                /\ UNCHANGED wire
           ELSE /\ wire' = Append(wire, Written(inst_transport[conn], Head(ready).payload, "loop"))
                /\ UNCHANGED raised
    /\ Ran(<<>>)
    /\ UNCHANGED <<framerVars, clientVars, threadVars, running, stopping, runner,
                   loop_blocked, netVars, invoked, last, nlogin, nacks, nkeepalive,
                   est, hs_full>>

\* KikConnection.close, marshaled by a worker thread (line 584)
RunClose ==
    /\ CanRun("close")
    /\ wire' = wire \o close(Head(ready).conn, "loop")
    /\ Ran(<<>>)
    /\ UNCHANGED <<framerVars, clientVars, threadVars, running, stopping, runner,
                   loop_blocked, netVars, invoked, raised, last, nlogin, nacks,
                   nkeepalive, est, hs_full>>

\* the transport reads end-of-file and schedules connection_lost
RunReadEof ==
    /\ CanRun("read_eof")
    /\ Ran(<<Callbk("connection_lost", Head(ready).conn, NoStanza)>>)
    /\ UNCHANGED <<framerVars, clientVars, threadVars, running, stopping, runner,
                   loop_blocked, netVars, obsVars>>

\* KikConnection.connection_lost
RunConnectionLost ==
    /\ CanRun("connection_lost")
    /\ tstate' = [tstate EXCEPT ![Head(ready).conn] =
                      IF @ = "aborted" THEN "aborted" ELSE "lost"]
    /\ stopping' = TRUE
    /\ Ran(<<Callbk("_on_connection_lost", 0, NoStanza)>>)
    /\ UNCHANGED <<framerVars, clientVars, threadVars, running, runner, loop_blocked,
                   tproto, nrecv, peer, obsVars>>

\* KikClient._on_connection_lost
RunOnConnectionLost ==
    /\ CanRun("_on_connection_lost")
    /\ connected' = FALSE
    /\ Ran(<<>>)
    /\ UNCHANGED <<framerVars, username, password, kik_node, init_node, authenticated,
                   should_login_on_connection, connection, inst_transport, registry,
                   threadVars, running, stopping, runner, loop_blocked, netVars, obsVars>>

(***************************************************************************)
(* The caller thread.                                                      *)
(***************************************************************************)
\* KikClient.disconnect
CallerDisconnect ==
    /\ cpc = "idle"
    /\ ncalls < MaxCalls
    /\ ncalls' = ncalls + 1
    /\ api' = [method |-> "disconnect", jid |-> <<>>]
    /\ IF connection = 0
       THEN /\ raised' = Append(raised, "AttributeError")
            /\ UNCHANGED wire
       ELSE /\ wire' = wire \o close(connection, "caller")
            /\ UNCHANGED raised
    /\ UNCHANGED <<framerVars, clientVars, pc, nstarted, cpc, cur, nsent, returned,
                   loopVars, netVars, invoked, last, nlogin, nacks, nkeepalive, est,
                   hs_full>>

\* KikClient._send_xmpp_element is entered with the element `message`
\* by the public method `method`
_send_xmpp_element(method, jid, message) ==
    /\ cpc' = "poll"
    /\ api' = [method |-> method, jid |-> jid]
    /\ cur' = message
    /\ nsent' = 0
    /\ UNCHANGED <<framerVars, clientVars, pc, nstarted, returned, loopVars, netVars,
                   obsVars>>

\* a public method that passes its element straight to _send_xmpp_element
CallerSendCall ==
    /\ cpc = "idle"
    /\ ncalls < MaxCalls
    /\ ncalls' = ncalls + 1
    /\ _send_xmpp_element("send", <<>>, Element(ncalls + 1, 1, FALSE))

\* an is_group_jid that takes every address outside the groups domain for
\* the address of a user
is_group_jid_lenient(jid) ==
    IF Contains(jid, "@groups.kik.com")
    THEN [raised |-> <<>>, value |-> TRUE]
    ELSE [raised |-> <<>>, value |-> FALSE]

\* KikClient.is_group_jid: the value returned or the exception raised
is_group_jid(jid) ==
    IF Contains(jid, "@talk.kik.com")
    THEN [raised |-> <<>>, value |-> FALSE]
    ELSE IF Contains(jid, "@groups.kik.com")
    THEN [raised |-> <<>>, value |-> TRUE]
    ELSE [raised |-> <<"KikApiException">>, value |-> FALSE]

\* the public methods that choose their element by the kind of peer_jid
JidMethods == {"send_chat_message", "send_chat_image", "send_is_typing", "send_gif_image"}

\* the peer_jid arguments
TALK == "@talk.kik.com"
GROUPS == "@groups.kik.com"
Jids == {<<"bob_x1y", TALK>>, <<"1100_g", GROUPS>>, <<"bob">>, <<"bob", "@kik.com">>}

\* send_chat_message, send_chat_image, send_is_typing, send_gif_image: the
\* exception of is_group_jid ends the call, else the element built for a
\* group or for a user, of n payloads, goes to _send_xmpp_element
CallerSendTo(method, jid, n) ==
    /\ cpc = "idle"
    /\ ncalls < MaxCalls
    /\ ncalls' = ncalls + 1
    /\ LET g == is_group_jid(jid)
       IN  IF g.raised # <<>>
           THEN /\ raised' = raised \o g.raised
                /\ api' = [method |-> method, jid |-> jid]
                /\ UNCHANGED <<framerVars, clientVars, pc, nstarted, cpc, cur, nsent,
                               returned, loopVars, netVars, wire, invoked, last, nlogin,
                               nacks, nkeepalive, est, hs_full>>
           ELSE _send_xmpp_element(method, jid, Element(ncalls + 1, n, n > 1))

\* lines 475-478, 485-486: the poll sees connected, serialize() returns one
\* payload, which is marshaled, and the call returns message_id
CallerSendReturns ==
    /\ cpc = "poll"
    /\ connected
    /\ ~cur.is_list
    /\ cpc' = "idle"
    /\ ready' = Append(ready, SendRawData(connection, cur.payloads[1]))
    /\ returned' = Append(returned, [element |-> cur, result |-> cur.message_id])
    /\ cur' = NoElement
    /\ UNCHANGED <<framerVars, clientVars, pc, nstarted, ncalls, api, nsent, running,
                   stopping, ntodo, runner, loop_blocked, netVars, obsVars>>

\* lines 475-480: the poll sees connected and serialize() returns a list
CallerSendMulti ==
    /\ cpc = "poll"
    /\ connected
    /\ cur.is_list
    /\ cpc' = "packets"
    /\ UNCHANGED <<framerVars, clientVars, pc, nstarted, ncalls, api, cur, nsent,
                   returned, loopVars, netVars, obsVars>>

\* a _send_xmpp_element whose loop takes the packets from the last one
CallerSendPacket_reversed ==
    /\ cpc = "packets"
    /\ ready' = Append(ready,
                       SendRawData(connection, cur.payloads[Len(cur.payloads) - nsent]))
    /\ IF nsent + 1 < Len(cur.payloads)
       THEN /\ nsent' = nsent + 1
            /\ UNCHANGED <<cpc, cur, returned>>
       ELSE /\ cpc' = "idle"
            /\ returned' = Append(returned, [element |-> cur, result |-> cur.message_id])
            /\ cur' = NoElement
            /\ nsent' = 0
    /\ UNCHANGED <<framerVars, clientVars, pc, nstarted, ncalls, api, running, stopping,
                   ntodo, runner, loop_blocked, netVars, obsVars>>

\* lines 481-483: the next packet is marshaled to the send_raw_data of
\* self.connection; after the last one the call returns message_id
CallerSendPacket ==
    /\ cpc = "packets"
    /\ ready' = Append(ready, SendRawData(connection, cur.payloads[nsent + 1]))
    /\ IF nsent + 1 < Len(cur.payloads)
       THEN /\ nsent' = nsent + 1
            /\ UNCHANGED <<cpc, cur, returned>>
       ELSE /\ cpc' = "idle"
            /\ returned' = Append(returned, [element |-> cur, result |-> cur.message_id])
            /\ cur' = NoElement
            /\ nsent' = 0
    /\ UNCHANGED <<framerVars, clientVars, pc, nstarted, ncalls, api, running, stopping,
                   ntodo, runner, loop_blocked, netVars, obsVars>>

MainNext ==
    \/ \E w \in Workers : ThreadStart(w)
    \/ \E w \in Workers : ThreadWaitEnds(w)
    \/ \E w \in Workers : ThreadCreate(w)
    \/ \E w \in Workers : ThreadRunForever(w)
    \/ \E w \in Workers : ThreadNotify(w)
    \/ LoopReturns
    \/ \E t \in Workers : NetConnect(t)
    \/ \E t \in Workers, d \in PeerChunks : PeerData(t, d)
    \/ \E t \in Workers : PeerClose(t)
    \/ RunConnectionMade
    \/ RunFutureDone
    \/ RunReadReady
    \/ RunOnNewData
    \/ RunSendRawData
    \/ RunClose
    \/ RunReadEof
    \/ RunConnectionLost
    \/ RunOnConnectionLost

\* the life cycle of a client constructed with username and password, with
\* or without the node: handshake, acknowledgements, login responses and
\* the reconnects they cause
MainInit ==
    /\ username = "u"
    /\ password = "p"
    /\ kik_node \in {None, "n"}
    /\ Constructed
    /\ FramerIdle

Spec == MainInit /\ [][MainNext]_vars

\* KikClient.__init__, lines 65-74, run by the constructing thread
InitRegistry ==
    /\ ~registry
    /\ registry' = TRUE
    /\ UNCHANGED <<framerVars, username, password, kik_node, init_node, connected,
                   authenticated, should_login_on_connection, connection, inst_transport,
                   threadVars, loopVars, netVars, obsVars>>

\* what the peer sends while the client is being constructed
ConstructPeerChunks ==
    {KStanza("1", FALSE), IqStanza("jabber:iq:roster", FALSE),
     MessageStanza("jabber:client", "chat", FALSE), MessageStanza(None, "chat", FALSE)}

\* the first connection of a client whose constructing thread is between
\* line 63 and line 65: the worker thread runs while __init__ goes on
ConstructInit ==
    /\ username = "u"
    /\ password = "p"
    /\ kik_node \in {None, "n"}
    /\ Started
    /\ registry = FALSE
    /\ FramerIdle

ConstructNext ==
    \/ InitRegistry
    \/ ThreadStart(1)
    \/ ThreadCreate(1)
    \/ ThreadRunForever(1)
    \/ ThreadNotify(1)
    \/ LoopReturns
    \/ NetConnect(1)
    \/ \E d \in ConstructPeerChunks : PeerData(1, d)
    \/ PeerClose(1)
    \/ RunConnectionMade
    \/ RunFutureDone
    \/ RunReadReady
    \/ RunOnNewData
    \/ RunSendRawData
    \/ RunReadEof
    \/ RunConnectionLost

SpecConstruct == ConstructInit /\ [][ConstructNext]_vars

\* one connection of a client constructed with any credentials, and a caller
\* thread that sends and disconnects
CallerInit ==
    /\ username \in {None, "u"}
    /\ password \in {None, "p"}
    /\ kik_node \in {None, "n"}
    /\ Constructed
    /\ FramerIdle

CallerNext ==
    \/ ThreadStart(1)
    \/ ThreadCreate(1)
    \/ ThreadRunForever(1)
    \/ ThreadNotify(1)
    \/ LoopReturns
    \/ NetConnect(1)
    \/ \E d \in CallerPeerChunks : nrecv < MaxCallerRecv /\ PeerData(1, d)
    \/ PeerClose(1)
    \/ RunConnectionMade
    \/ RunFutureDone
    \/ RunReadReady
    \/ RunOnNewData
    \/ RunSendRawData
    \/ RunReadEof
    \/ RunConnectionLost
    \/ CallerDisconnect
    \/ CallerSendCall
    \/ CallerSendReturns

SpecCaller == CallerInit /\ [][CallerNext]_vars

\* the poll of _send_xmpp_element goes on as long as the thread is scheduled
FairSpecCaller == SpecCaller /\ WF_vars(CallerSendReturns)

\* one connection of a client constructed with all credentials, and a
\* caller thread that calls the public methods that take a peer_jid
ApiInit ==
    /\ username = "u"
    /\ password = "p"
    /\ kik_node = "n"
    /\ Constructed
    /\ FramerIdle

ApiPeerChunks == {KEEPALIVE, KStanza("1", TRUE)}

ApiNext ==
    \/ ThreadStart(1)
    \/ ThreadCreate(1)
    \/ ThreadRunForever(1)
    \/ ThreadNotify(1)
    \/ LoopReturns
    \/ NetConnect(1)
    \/ \E d \in ApiPeerChunks : nrecv < MaxCallerRecv /\ PeerData(1, d)
    \/ PeerClose(1)
    \/ RunConnectionMade
    \/ RunFutureDone
    \/ RunReadReady
    \/ RunOnNewData
    \/ RunSendRawData
    \/ RunReadEof
    \/ RunConnectionLost
    \/ \E method \in JidMethods, jid \in Jids, n \in 1..MaxPackets :
           CallerSendTo(method, jid, n)
    \/ CallerSendReturns
    \/ CallerSendMulti
    \/ CallerSendPacket

SpecApi == ApiInit /\ [][ApiNext]_vars

\* the stanzas the dispatch is exercised with
UNKNOWN_NS == "kik:unknown"
OtherTags == {"ack", "[document]"}
Namespaces == xml_namespace_handlers \cup {UNKNOWN_NS}

DispatchData ==
    {KEEPALIVE, Stanza("stc")}
    \cup {Stanza(n) : n \in OtherTags}
    \cup {KStanza(ok, ts) : ok \in {None, "0", "1"}, ts \in BOOLEAN}
    \cup {IqStanza(q, FALSE) : q \in Namespaces \cup {"nochild", "nokey"}}
    \cup {IqStanza("jabber:iq:register", TRUE)}
    \cup {MessageStanza(ns, ty, g) :
             ns \in Namespaces \cup {None}, ty \in {None, "receipt", "chat"}, g \in BOOLEAN}

\* a client whose first connection is live, with any value of the flags,
\* and one stanza that the framer has scheduled for dispatch
DispatchInit ==
    /\ username = "u"
    /\ password = "p"
    /\ kik_node = None
    /\ init_node = None
    /\ connected \in BOOLEAN
    /\ authenticated \in BOOLEAN
    /\ should_login_on_connection \in BOOLEAN
    /\ connection = 1
    /\ inst_transport = [i \in Workers |-> IF i = 1 THEN 1 ELSE 0]
    /\ registry = TRUE
    /\ pc = [w \in Workers |-> IF w = 1 THEN "forever" ELSE "idle"]
    /\ nstarted = 1
    /\ \E d \in DispatchData : ready = <<Callbk("_on_new_data_received", 0, d)>>
    /\ running = TRUE
    /\ stopping = FALSE
    /\ ntodo = 0
    /\ runner = 1
    /\ loop_blocked = FALSE
    /\ tstate = [t \in Workers |-> IF t = 1 THEN "live" ELSE "none"]
    /\ tproto = [t \in Workers |-> IF t = 1 THEN 1 ELSE 0]
    /\ cpc = "idle"
    /\ ncalls = 0
    /\ api = NoCall
    /\ cur = NoElement
    /\ nsent = 0
    /\ returned = <<>>
    /\ nrecv = 1
    /\ peer = [t \in Workers |-> 0]
    /\ wire = <<Written(1, "anon", "loop")>>
    /\ invoked = <<>>
    /\ raised = <<>>
    /\ last = <<>>
    /\ nlogin = 0
    /\ nacks = 0
    /\ nkeepalive = 0
    /\ est = <<>>
    /\ hs_full = [t \in Workers |-> IF t = 1 THEN "partial" ELSE None]
    /\ FramerIdle

DispatchNext ==
    \/ RunOnNewData
    \/ RunSendRawData

SpecDispatch == DispatchInit /\ [][DispatchNext]_vars

(***************************************************************************)
(* Inputs of the framer.                                                   *)
(***************************************************************************)
OpenA  == Bytes(<<LT, "a", GT>>)
CloseA == Bytes(<<LT, SL, "a", GT>>)

\* <a>xxx...x</a>, PARTIAL_THRESHOLD + MaxTail bytes long
PlainStanza ==
    BCat(BCat(OpenA, Run(FILL, PARTIAL_THRESHOLD + MaxTail - 7)), CloseA)

\* <a b>xxx...x<a></a></a>: a child element with the tag of its parent
NestedStanza ==
    BCat(BCat(Bytes(<<LT, "a", SP, "b", GT>>), Run(FILL, PARTIAL_THRESHOLD + MaxTail - 16)),
         BCat(OpenA, BCat(CloseA, CloseA)))

BigStanzas == {PlainStanza, NestedStanza}

\* every split of s in two or three in-order chunks, the first one at
\* least PARTIAL_THRESHOLD bytes long
Cuts(s) == PARTIAL_THRESHOLD..(BLen(s) - 1)

Splits(s) ==
    {<<BTake(s, c), BDrop(s, c)>> : c \in Cuts(s)}
    \cup
    {<<BTake(s, cc[1]), BDrop(BTake(s, cc[2]), cc[1]), BDrop(s, cc[2])>> :
        cc \in {dd \in Cuts(s) \X Cuts(s) : dd[1] < dd[2]}}

\* <a>xxx...x</a>, PARTIAL_THRESHOLD - 1 bytes long
LongestSmallChunk == BCat(BCat(OpenA, Run(FILL, PARTIAL_THRESHOLD - 8)), CloseA)

SmallChunks ==
    {Bytes(<<SP>>), Bytes(<<LT, "a", SL, GT>>), Bytes(<<LT, "b", GT, FILL, LT, SL, "b", GT>>),
     LongestSmallChunk}

ChunkSeqs ==
    UNION {Splits(s) : s \in BigStanzas}
    \cup {<<c>> : c \in SmallChunks}
    \cup {<<c, d>> : c \in SmallChunks, d \in SmallChunks}

RECURSIVE Concat(_)
Concat(ss) == IF ss = <<>> THEN <<>> ELSE BCat(Head(ss), Concat(Tail(ss)))

\* a data_received whose length test is off by one
data_received_off_by_one(data) ==
    IF partial_data = None
    THEN IF BLen(data) + 1 < PARTIAL_THRESHOLD
         THEN /\ scheduled' = Append(scheduled, data)
              /\ UNCHANGED <<partial_data, partial_data_start_tag>>
         ELSE /\ partial_data_start_tag' = parse_start_tag(data)[1]
              /\ partial_data' = data
              /\ UNCHANGED scheduled
    ELSE IF ends_with_tag(partial_data_start_tag, data)
         THEN /\ scheduled' = Append(scheduled, BCat(partial_data, data))
              /\ partial_data' = None
              /\ partial_data_start_tag' = None
         ELSE /\ partial_data' = BCat(partial_data, data)
              /\ UNCHANGED <<partial_data_start_tag, scheduled>>

(***************************************************************************)
(* KikConnection.data_received                                             *)
(***************************************************************************)
data_received(data) ==
    IF partial_data = None
    THEN IF BLen(data) < PARTIAL_THRESHOLD
         THEN /\ scheduled' = Append(scheduled, data)
              /\ UNCHANGED <<partial_data, partial_data_start_tag>>
         ELSE /\ partial_data_start_tag' = parse_start_tag(data)[1]
              /\ partial_data' = data
              /\ UNCHANGED scheduled
    ELSE IF ends_with_tag(partial_data_start_tag, data)
         THEN /\ scheduled' = Append(scheduled, BCat(partial_data, data))
              /\ partial_data' = None
              /\ partial_data_start_tag' = None
         ELSE /\ partial_data' = BCat(partial_data, data)
              /\ UNCHANGED <<partial_data_start_tag, scheduled>>

\* KikConnection.__init__ followed by the choice of what the peer sends
FramerInit ==
    /\ chunks \in ChunkSeqs
    /\ orig = Concat(chunks)
    /\ nfed = 0
    /\ fed = <<>>
    /\ partial_data = None
    /\ partial_data_start_tag = None
    /\ scheduled = <<>>
    /\ ninst = 1
    /\ prev_partial = FALSE
    /\ MainIdle

\* the transport delivers the next chunk
Feed ==
    /\ chunks # <<>>
    /\ data_received(Head(chunks))
    /\ chunks' = Tail(chunks)
    /\ nfed' = nfed + 1
    /\ fed' = Append(fed, Head(chunks))
    /\ UNCHANGED <<orig, ninst, prev_partial, mainVars>>

\* a KikConnection.__init__ that takes over the buffer of the instance
\* before it
KikConnection_init_retained == UNCHANGED <<partial_data, partial_data_start_tag>>

\* KikConnection.__init__: the fields of the new instance
KikConnection_init ==
    /\ partial_data' = None
    /\ partial_data_start_tag' = None

\* line 593: a reconnect replaces the instance, whatever the old one
\* holds, and the transport of the new one delivers its own chunks
FramerReconnect ==
    /\ ninst < MaxWorkers
    /\ ninst' = ninst + 1
    /\ prev_partial' = (partial_data # None)
    /\ KikConnection_init
    /\ \E cs \in ChunkSeqs : chunks' = cs /\ orig' = Concat(cs)
    /\ nfed' = 0
    /\ fed' = <<>>
    /\ scheduled' = <<>>
    /\ UNCHANGED mainVars

FramerNext ==
    \/ Feed
    \/ FramerReconnect

SpecFramer == FramerInit /\ [][FramerNext]_vars

\* the chunks fed are a split of one big stanza
IsSplitRun == orig \in BigStanzas

(***************************************************************************)
(* C1: Reassembly.  Whenever a stanza is split in two or more in-order     *)
(* chunks the first of which is at least 16384 bytes long, and the chunks  *)
(* are fed to data_received on a connection with no partial buffer, no     *)
(* call of _on_new_data_received is scheduled before the last chunk, and   *)
(* after the last chunk exactly one is scheduled, with the bytes of the    *)
(* stanza, and the partial buffer is empty.                                *)
(***************************************************************************)
C1_Reassembly ==
    IsSplitRun =>
        /\ chunks # <<>> => scheduled = <<>>
        /\ chunks = <<>> =>
              /\ scheduled = <<orig>>
              /\ partial_data = None
              /\ partial_data_start_tag = None

(***************************************************************************)
(* The life cycle: handshakes, logins and reconnects.                      *)
(***************************************************************************)
RECURSIVE Count(_, _)
Count(seq, x) ==
    IF seq = <<>> THEN 0
    ELSE (IF Head(seq) = x THEN 1 ELSE 0) + Count(Tail(seq), x)

\* the payloads written on transport t, in order
RECURSIVE PayloadsOn(_, _)
PayloadsOn(w, t) ==
    IF w = <<>> THEN <<>>
    ELSE (IF Head(w).t = t THEN <<Head(w).data>> ELSE <<>>) \o PayloadsOn(Tail(w), t)

\* the payloads written, whatever the transport
RECURSIVE Payloads(_)
Payloads(w) == IF w = <<>> THEN <<>> ELSE <<Head(w).data>> \o Payloads(Tail(w))

\* the payloads of the send_raw_data callbacks queued on the loop
RECURSIVE QueuedPayloads(_)
QueuedPayloads(q) ==
    IF q = <<>> THEN <<>>
    ELSE (IF Head(q).op = "send_raw_data" THEN <<Head(q).payload>> ELSE <<>>)
         \o QueuedPayloads(Tail(q))

\* the position of the first x in seq, 0 when there is none
RECURSIVE IndexOf(_, _)
IndexOf(seq, x) ==
    IF seq = <<>> THEN 0
    ELSE IF Head(seq) = x THEN 1
    ELSE LET i == IndexOf(Tail(seq), x) IN IF i = 0 THEN 0 ELSE i + 1

\* C2 (deferred login): for a client constructed with username and password
\* but no node, the first payload written is the anonymous open on the first
\* connection; the core calls login() once when a success acknowledgement
\* without ts has been dispatched and never before, whatever the number of
\* such acknowledgements and of connections; each call sends one request.
C2_DeferredLogin ==
    init_node = None =>
        /\ wire # <<>> => wire[1].t = 1 /\ wire[1].data = "anon"
        /\ nlogin = (IF nacks > 0 THEN 1 ELSE 0)
        /\ Count(Payloads(wire), "login") + Count(QueuedPayloads(ready), "login") = nlogin

\* the position in wire of the first write on transport t, 0 when none
FirstWriteOn(t) == IndexOf([i \in 1..Len(wire) |-> wire[i].t], t)

\* C3 (identity-discovery reconnect): every call of
\* _establish_authenticated_session writes the close tag on the transport of
\* the connection that exists then, and every connection made by a
\* reconnect writes the session-establishment payload as its first payload,
\* after such a close tag, and never the anonymous open.
C3_Reconnect ==
    /\ \A i \in 1..Len(est) : est[i] # 0
    /\ \A t \in Workers :
          (t > 1 /\ FirstWriteOn(t) # 0) =>
              /\ wire[FirstWriteOn(t)].data = "auth"
              /\ Count(PayloadsOn(wire, t), "anon") = 0
              /\ \E i \in 1..(FirstWriteOn(t) - 1), j \in 1..Len(est) :
                    wire[i] = Written(est[j], "</k>", "loop")

\* the handshake payloads written on transport t
Handshakes(t) == SelectSeq(PayloadsOn(wire, t), LAMBDA d : d \in {"auth", "anon"})

\* C4 (handshake with full identity): a transport established while node,
\* username and password are all set gets exactly one handshake payload,
\* the session establishment, as its first payload and never the anonymous
\* open; a transport established while one of the three is missing gets
\* exactly one, the anonymous open, as its first payload; a transport that
\* is not established gets no payload.
C4_Handshake ==
    \A t \in Workers :
        /\ hs_full[t] = "full" =>
              Handshakes(t) = <<"auth">> /\ Head(PayloadsOn(wire, t)) = "auth"
        /\ hs_full[t] = "partial" =>
              Handshakes(t) = <<"anon">> /\ Head(PayloadsOn(wire, t)) = "anon"
        /\ hs_full[t] = None => PayloadsOn(wire, t) = <<>>

\* C5 (no overlapping transports): at most one transport is being
\* established or live, and at most one worker thread runs the loop.
C5_NoOverlap ==
    /\ Cardinality({t \in Workers : tstate[t] \in {"pending", "arriving", "live"}}) <= 1
    /\ Cardinality({w \in Workers : pc[w] \in {"ruc", "forever"}}) <= 1

\* C6 (loop-thread exclusivity): every write on a transport is made by the
\* thread that runs the loop.
C6_LoopThreadWrites == \A i \in 1..Len(wire) : wire[i].by = "loop"

\* the caller is in the poll of _send_xmpp_element and the flag is False
Waiting == cpc = "poll" /\ ~connected

\* the payloads in seq that are payloads of elements of the caller thread
IsElementPayload(p) == \E k \in 1..MaxCalls, i \in 1..MaxPackets : p = Payload(k, i)
ElementPayloads(seq) == SelectSeq(seq, IsElementPayload)

\* C7 (blocking send): while connected is False a call of
\* _send_xmpp_element stays in its poll and enqueues nothing; a call
\* returns only with connected True and its payload enqueued last on the
\* loop; a call that polls with connected True eventually returns; and the
\* loop thread is never blocked in the poll.
C7_BlockingSend ==
    /\ [][/\ Waiting =>
                /\ cpc' = "poll"
                /\ Len(ElementPayloads(QueuedPayloads(ready')))
                       <= Len(ElementPayloads(QueuedPayloads(ready)))
          /\ (cpc = "poll" /\ cpc' # "poll") => connected
          /\ (cpc # "idle" /\ cpc' = "idle") =>
                ready' = Append(ready, SendRawData(connection,
                                                   cur.payloads[Len(cur.payloads)]))]_vars
    /\ (cpc = "poll" /\ connected) ~> (cpc = "idle")
    /\ [](~loop_blocked)

C7_Witness ==
    /\ cpc = "idle"
    /\ ncalls = MaxCalls
    /\ nlogin = 1
    /\ Len(ElementPayloads(Payloads(wire))) >= 1
    /\ Count(Payloads(wire), "login") = 1

\* the stanza of the last dispatch
Dispatched == last # <<>>
D == last[1].data

\* C8 (dispatch precedence for message stanzas): a message with a
\* registered namespace attribute is handed once to the handler of that
\* namespace and to nothing else, whatever its type and children; a message
\* without namespace attribute and with type receipt is handed once to
\* on_group_receipts_received and to nothing else when it has a g child,
\* and once to the 'jabber:client' handler and to nothing else when it has
\* none; none of these dispatches raises.
C8_MessagePrecedence ==
    (Dispatched /\ D.name = "message") =>
        /\ D.xmlns \in xml_namespace_handlers =>
              invoked = <<Handler(D.xmlns)>> /\ raised = <<>>
        /\ (D.xmlns = None /\ D.type = "receipt" /\ D.g) =>
              invoked = <<Callback("on_group_receipts_received")>> /\ raised = <<>>
        /\ (D.xmlns = None /\ D.type = "receipt" /\ ~D.g) =>
              invoked = <<Handler("jabber:client")>> /\ raised = <<>>

C8_Witness ==
    /\ Dispatched
    /\ D = MessageStanza("kik:groups", "receipt", TRUE)
    /\ invoked = <<Handler("kik:groups")>>

\* a stanza with a tag other than k, iq, message and stc, or an iq or a
\* message that carries a namespace that is not in the registry
Unroutable(d) ==
    \/ d.name \in OtherTags
    \/ d.name = "iq" /\ d.q \notin xml_namespace_handlers \cup {"nochild", "nokey"}
    \/ d.name = "message" /\ d.xmlns # None /\ d.xmlns \notin xml_namespace_handlers

\* C9 (unroutable stanzas are dropped safely): the dispatch of a stanza
\* whose tag is none of k, iq, message, stc, or of an iq or a message whose
\* namespace is not in the registry, invokes nothing, raises nothing,
\* schedules nothing, starts no reconnect, does not block, and leaves
\* connected, authenticated and should_login_on_connection as they were.
C9_UnroutableDropped ==
    (Dispatched /\ Unroutable(D)) =>
        /\ invoked = <<>>
        /\ raised = <<>>
        /\ ready = <<>>
        /\ est = <<>>
        /\ ~loop_blocked
        /\ connected = last[1].before.connected
        /\ authenticated = last[1].before.authenticated
        /\ should_login_on_connection = last[1].before.should_login_on_connection

C9_Witness ==
    /\ Dispatched
    /\ D = IqStanza(UNKNOWN_NS, FALSE)
    /\ connected
    /\ should_login_on_connection

\* C10 (keep-alive): every keep-alive chunk dispatched has one space byte
\* written back, or one still queued on the loop, and there is no other
\* space byte; its dispatch invokes nothing, raises nothing and leaves the
\* flags as they were.
C10_KeepAlive ==
    /\ Count(Payloads(wire), SPACE) + Count(QueuedPayloads(ready), SPACE) = nkeepalive
    /\ (Dispatched /\ D = KEEPALIVE) =>
          /\ last[1].result.invoked = <<>>
          /\ last[1].result.raised = <<>>
          /\ last[1].result.sends = <<SendRawData(last[1].before.connection, SPACE)>>
          /\ last[1].result.connected = last[1].before.connected
          /\ last[1].result.authenticated = last[1].before.authenticated
          /\ last[1].result.should_login_on_connection
                 = last[1].before.should_login_on_connection
          /\ ~last[1].result.establish
          /\ ~last[1].result.blocked

(***************************************************************************)
(* C11: Small-chunk independence.  When the chunks fed to data_received    *)
(* on a connection with no partial buffer are all shorter than 16384       *)
(* bytes, then after every chunk the scheduled calls of                    *)
(* _on_new_data_received are, in order, one per chunk fed with exactly     *)
(* the bytes of that chunk, and no partial buffer is started.              *)
(***************************************************************************)
C11_SmallChunks ==
    ~IsSplitRun =>
        /\ scheduled = fed
        /\ partial_data = None
        /\ partial_data_start_tag = None

C11_Witness ==
    /\ ~IsSplitRun
    /\ chunks = <<>>
    /\ fed = <<LongestSmallChunk, Bytes(<<LT, "a", SL, GT>>)>>
    /\ scheduled = fed

\* the payloads the caller thread has marshaled, in order
RECURSIVE PayloadsOf(_)
PayloadsOf(rs) ==
    IF rs = <<>> THEN <<>> ELSE Head(rs).element.payloads \o PayloadsOf(Tail(rs))

Marshaled == PayloadsOf(returned) \o SubSeq(cur.payloads, 1, nsent)

InvalidJid(jid) == ~Contains(jid, TALK) /\ ~Contains(jid, GROUPS)

LoginRequests == Count(Payloads(wire), "login") + Count(QueuedPayloads(ready), "login")

C14_SuccessAck ==
    (Dispatched /\ D.name = "k" /\ D.ok = "1") =>
        /\ connected
        /\ raised = <<>>
        /\ ~loop_blocked
        /\ D.ts =>
              /\ authenticated
              /\ invoked = <<Callback("on_authenticated")>>
              /\ nlogin = 0
              /\ LoginRequests = 0
              /\ should_login_on_connection = last[1].before.should_login_on_connection
        /\ ~D.ts =>
              /\ invoked = <<>>
              /\ authenticated = last[1].before.authenticated

C14_Witness ==
    /\ Dispatched
    /\ D = KStanza("1", TRUE)
    /\ ~last[1].before.connected
    /\ ~last[1].before.authenticated
    /\ last[1].before.should_login_on_connection
    /\ authenticated
    /\ invoked = <<Callback("on_authenticated")>>

\* C16 (default fallback for messages without namespace): the dispatch of
\* a message stanza that has no xmlns attribute and is not a delivery
\* receipt, whatever its type and also when it has no type attribute,
\* hands it once to the 'jabber:client' handler and to nothing else, and
\* raises nothing.
C16_DefaultFallback ==
    (Dispatched /\ D.name = "message" /\ D.xmlns = None /\ D.type # "receipt") =>
        /\ invoked = <<Handler("jabber:client")>>
        /\ raised = <<>>

\* worker thread w has invoked on_disconnected (line 599 is its last line)
Notified(w) == pc[w] = "done"

\* C15 (loss notification exactly once): the thread of a connection
\* instance invokes on_disconnected only after the transport of that
\* instance has reported its loss, each thread at most once; and once the
\* transport of an instance has reported its loss, the thread of that
\* instance is the one whose run_forever returns and it goes on to the
\* invocation.
C15_LossNotification ==
    /\ \A w \in Workers : Notified(w) => tstate[w] = "lost"
    /\ Count(invoked, Callback("on_disconnected")) = Cardinality({w \in Workers : Notified(w)})
    /\ \A w \in Workers :
          tstate[w] = "lost" =>
              \/ pc[w] = "forever" /\ runner = w /\ stopping
              \/ pc[w] \in {"notify", "done"}

\* a negative acknowledgement has been dispatched
FailedSeen == Count(invoked, Callback("on_connection_failed")) > 0

\* C18 (Failed is terminal): while the first connection instance is the
\* only one, once a negative acknowledgement has been dispatched no step
\* sets connected or authenticated to True, invokes on_authenticated or
\* calls login.
C18_FailedTerminal ==
    [][(FailedSeen /\ nstarted = 1 /\ nstarted' = 1) =>
          /\ connected' => connected
          /\ authenticated' => authenticated
          /\ Count(invoked', Callback("on_authenticated"))
                 = Count(invoked, Callback("on_authenticated"))
          /\ nlogin' = nlogin]_vars

\* worker thread w has ended, by its last line or by an exception
Terminated(w) == pc[w] \in {"done", "crashed"}

\* C19 (reconnect supervision): when the connection instance of a
\* reconnect exists and its transport is being opened or was opened, the
\* loop run of the previous worker thread is over and that thread has
\* ended; and when the new connection has written its handshake, the
\* on_disconnected of the previous thread has returned.
C19_ReconnectSupervision ==
    \A w \in Workers :
        w > 1 =>
            /\ tstate[w] # "none" => runner # w - 1 /\ Terminated(w - 1)
            /\ FirstWriteOn(w) # 0 => Notified(w - 1)

\* C20 (login only when deferred for lack of a node): a client constructed
\* with node, username and password never has the core call login or send
\* a login request, whatever acknowledgements it receives; nor does a
\* client constructed without username or without password.
C20_LoginOnlyDeferred ==
    /\ (init_node # None /\ username # None /\ password # None) =>
          nlogin = 0 /\ LoginRequests = 0
    /\ (username = None \/ password = None) =>
          nlogin = 0 /\ LoginRequests = 0

\* C21 (partial buffer invariant): partial_data is set exactly when
\* partial_data_start_tag is set; an instance that has received no chunk,
\* the one made by a reconnect included, has both empty, whatever the
\* instance before it held; and a chunk delivered while the buffer is set
\* is either added to the buffer, nothing being scheduled, or completes
\* the stanza, and then the buffer followed by the chunk is scheduled and
\* both fields are cleared in that step.
C21_PartialBuffer ==
    /\ []((partial_data = None) <=> (partial_data_start_tag = None))
    /\ [](nfed = 0 => partial_data = None /\ partial_data_start_tag = None)
    /\ [][(partial_data # None /\ nfed' = nfed + 1) =>
              \/ /\ scheduled' = scheduled
                 /\ partial_data' = BCat(partial_data, Head(chunks))
                 /\ partial_data_start_tag' = partial_data_start_tag
              \/ /\ scheduled' = Append(scheduled, BCat(partial_data, Head(chunks)))
                 /\ partial_data' = None
                 /\ partial_data_start_tag' = None]_vars

C21_Witness ==
    /\ ninst = 2
    /\ prev_partial
    /\ IsSplitRun
    /\ chunks = <<>>
    /\ scheduled = <<orig>>
    /\ partial_data = None

\* the calls of _send_xmpp_element by the caller thread that have left
\* their poll
SendsPastPoll == Len(returned) + (IF cpc = "packets" THEN 1 ELSE 0)

\* C22 (connected is reset on loss): when on_disconnected has been
\* invoked for the one connection of the client, connected is False, and
\* no call of _send_xmpp_element leaves its poll from then on.
C22_ConnectedReset ==
    /\ [](Notified(1) => ~connected)
    /\ [][Notified(1) => SendsPastPoll' = SendsPastPoll]_vars

\* p is a payload of the element of the k-th public call
IsPayloadOf(p, k) == \E i \in 1..MaxPackets : p = Payload(k, i)

\* C24 (the payloads of an element are contiguous on the wire): between
\* two payloads of one element, nothing but payloads of that element is
\* written.
C24_Contiguous ==
    \A k \in 1..MaxCalls, i \in 1..Len(wire), j \in 1..Len(wire) :
        (i < j /\ IsPayloadOf(wire[i].data, k) /\ IsPayloadOf(wire[j].data, k)) =>
            \A m \in i..j : IsPayloadOf(wire[m].data, k)

\* a transport is established and has not reported its loss
SomeTransportUp == \E t \in Workers : tstate[t] \in {"live", "eof"}

\* C26 (authenticated implies connected): whenever authenticated is True,
\* connected is True, and a transport is up.
C26_AuthImpliesConnected ==
    authenticated => connected /\ SomeTransportUp

\* C25 (the handler registry is ready before dispatch): when an iq or a
\* message stanza is dispatched, xml_namespace_handlers has been assigned,
\* and the dispatch does not fail on the missing attribute.
C25_RegistryReady ==
    (Dispatched /\ D.name \in {"iq", "message"}) =>
        /\ last[1].before.registry
        /\ "AttributeError" \notin {last[1].result.raised[i] : i \in 1..Len(last[1].result.raised)}

(***************************************************************************)
(* The deferred-login flow with a cooperative peer: it acknowledges the    *)
(* anonymous open, answers the login request with the response that       *)
(* carries the node, closes a transport on which it reads the closing tag  *)
(* and acknowledges the session-establishment payload with ok="1" and ts.  *)
(***************************************************************************)
\* what the cooperative peer sends when it reads payload p, NoStanza for
\* nothing
Reply(p) ==
    IF p = "anon" THEN KStanza("1", FALSE)
    ELSE IF p = "auth" THEN KStanza("1", TRUE)
    ELSE IF p = "login" THEN IqStanza("jabber:iq:register", TRUE)
    ELSE NoStanza

\* the cooperative peer reads the next payload written on transport t and
\* reacts to it
PeerReact(t) ==
    /\ AtPoll
    /\ tstate[t] = "live"
    /\ peer[t] < Len(PayloadsOn(wire, t))
    /\ peer' = [peer EXCEPT ![t] = @ + 1]
    /\ LET p == PayloadsOn(wire, t)[peer[t] + 1]
       IN  IF p = "</k>"
           THEN /\ tstate' = [tstate EXCEPT ![t] = "eof"]
                /\ ready' = Append(ready, Callbk("read_eof", t, NoStanza))
                /\ UNCHANGED nrecv
           ELSE IF Reply(p) # NoStanza
           THEN /\ nrecv' = nrecv + 1
                /\ ready' = Append(ready, Callbk("read_ready", t, Reply(p)))
                /\ UNCHANGED tstate
           ELSE UNCHANGED <<tstate, ready, nrecv>>
    /\ UNCHANGED <<framerVars, clientVars, threadVars, running, stopping, ntodo, runner,
                   loop_blocked, tproto, obsVars>>

\* a client constructed with username and password and no node
FlowInit ==
    /\ username = "u"
    /\ password = "p"
    /\ kik_node = None
    /\ Constructed
    /\ FramerIdle

\* a step of worker thread w
WorkerStep(w) ==
    \/ ThreadStart(w)
    \/ ThreadWaitEnds(w)
    \/ ThreadCreate(w)
    \/ ThreadRunForever(w)
    \/ ThreadNotify(w)

\* a step of the thread that runs the loop
LoopStep ==
    \/ LoopReturns
    \/ RunConnectionMade
    \/ RunFutureDone
    \/ RunReadReady
    \/ RunOnNewData
    \/ RunSendRawData
    \/ RunClose
    \/ RunReadEof
    \/ RunConnectionLost
    \/ RunOnConnectionLost

\* a step of the cooperative peer
PeerStep ==
    \/ \E t \in Workers : NetConnect(t)
    \/ \E t \in Workers : PeerReact(t)

FlowNext ==
    \/ \E w \in Workers : WorkerStep(w)
    \/ LoopStep
    \/ PeerStep
    \/ CallerSendCall
    \/ CallerSendReturns

SpecFlow == FlowInit /\ [][FlowNext]_vars

\* every started thread is scheduled again and again, and the peer goes on
FairSpecFlow ==
    /\ SpecFlow
    /\ \A w \in Workers : WF_vars(WorkerStep(w))
    /\ WF_vars(LoopStep)
    /\ WF_vars(PeerStep)

Authentications == Count(invoked, Callback("on_authenticated"))

\* C27 (the deferred-login flow reaches authentication): with a cooperative
\* peer and fair scheduling the client ends up connected and authenticated
\* on the second connection, on_authenticated is invoked exactly once, and
\* the reconnecting worker thread leaves its wait for the previous loop.
C27_DeferredLoginFlow ==
    /\ <>[](connected /\ authenticated /\ connection = 2 /\ tstate[2] = "live")
    /\ [](Authentications <= 1)
    /\ <>(Authentications = 1)
    /\ (pc[2] = "wait") ~> (pc[2] = "forever")

C27_Witness ==
    /\ connected
    /\ authenticated
    /\ connection = 2
    /\ tstate[1] = "lost"
    /\ tstate[2] = "live"
    /\ est = <<1>>
    /\ PayloadsOn(wire, 2) = <<"auth">>
    /\ Authentications = 1
    /\ pc[1] = "done"
    /\ pc[2] = "forever"

\* the success acknowledgement of the handshake on transport t has been
\* sent by the peer and handed to data_received
AckReceived(t) ==
    /\ peer[t] >= 1
    /\ \A i \in 1..Len(ready) :
           ~(ready[i].op = "read_ready" /\ ready[i].conn = t /\ ready[i].data.name = "k")

\* the loop runs a send_raw_data that was marshaled with an element payload
SendsElement ==
    /\ ready # <<>>
    /\ Head(ready).op = "send_raw_data"
    /\ IsElementPayload(Head(ready).payload)
    /\ wire' # wire \/ raised' # raised

\* C23 (no element payload before the acknowledgement on the same
\* transport): a send_raw_data with an element payload runs on a
\* connection instance whose transport is set, has not reported its loss
\* and has received its success acknowledgement.
C23_SendOnAcknowledged ==
    [][SendsElement =>
           LET t == inst_transport[Head(ready).conn]
           IN  /\ t # 0
               /\ tstate[t] \in {"live", "eof"}
               /\ AckReceived(t)]_vars

====
